---- MODULE Spec2Model ----
(***************************************************************************)
(* Model of mmdeploy/backend/ncnn/wrapper.py: NCNNWrapper.                 *)
(*                                                                         *)
(* The wrapper loads an ncnn network (construction), resolves the list of  *)
(* output names, and on every forward call splits the batch into samples,  *)
(* drives one ncnn extractor per sample and stacks the per-sample results. *)
(* The ncnn engine is external: the status and the Mat returned by each    *)
(* extract call are chosen nondeterministically.  Every call made on the   *)
(* network during construction is recorded in netLog, every call made on   *)
(* the engine during one forward call is recorded in trace.                *)
(***************************************************************************)
EXTENDS Integers, Sequences, FiniteSets, TLC

(* ------------------------------ bounds --------------------------------- *)

\* largest leading dimension of an input tensor
MaxBatch == 2
\* largest number of entries of the input mapping
MaxInputs == 2
\* largest length of an explicit output_names argument
MaxOutputs == 2

(* ------------------------- values and helpers -------------------------- *)

\* keys of the input mapping, by insertion position
InputNames == <<"x", "y", "z", "w", "v">>

\* names an output_names argument is built from
OutputUniverse == {"boxes", "scores"}

\* what net.output_names() reports for the loaded network
DeclaredOutputs == <<"boxes", "scores">>

Devices == {"cpu", "cuda"}

Range(s) == {s[i] : i \in DOMAIN s}

SeqsUpTo(S, n) == UNION {[1..m -> S] : m \in 0..n}

\* Optional[Sequence[str]]
None == [given |-> FALSE, names |-> <<>>]
Some(names) == [given |-> TRUE, names |-> names]

\* a torch.Tensor: the device it lives on and its data along dimension 0
Tensor(device, data) == [device |-> device, data |-> data]

\* tensor.size(0)
Size0(t) == Len(t.data)

\* tensor[batch_id]  (batch_id counts from 0)
Slice(t, batch_id) == Tensor(t.device, t.data[batch_id + 1])

\* an ncnn.Mat
Mat(data) == [kind |-> "Mat", data |-> data]
NoMat == [kind |-> "none", data |-> <<>>]

\* ncnn.Mat(input_tensor[batch_id].detach().cpu().numpy()): the .cpu() copy
\* and the numpy view drop the device, the Mat keeps the numbers
ToMat(t) == Mat(t.data)

\* torch.from_numpy(np.array(mat)): always a CPU tensor
FromMat(m) == Tensor("cpu", m.data)

\* the k-th caller tensor with n samples; every sample is a 1-D array and no
\* two samples of a call share their content
MakeTensor(k, n, device) == Tensor(device, [i \in 1..n |-> <<10 * k + i>>])

\* the input mappings a caller may pass, as (name, tensor) in insertion order
InputChoices ==
    UNION {
      { [k \in 1..m |-> [name |-> InputNames[k],
                         tensor |-> MakeTensor(k, sz[k], dv[k])]] :
          sz \in [1..m -> 0..MaxBatch], dv \in [1..m -> Devices] }
      : m \in 0..MaxInputs }

\* the Mats the engine may hand back from extract
EngineMats == {Mat(<<0>>), Mat(<<1>>), Mat(<<0, 0>>)}

\* the status codes of extract: 0 is success
EngineStatus == {0, -1}

(* ------------------------------ errors --------------------------------- *)

NoErr == [kind |-> "none", msg |-> <<>>]
Text(s) == [kind |-> "text", val |-> s]
Repr(m) == [kind |-> "mat", val |-> m]
Raise(kind, msg) == [kind |-> kind, msg |-> msg]

BatchSizeMsg == <<Text("All tensors should have same batch size")>>
DeviceMsg == <<Text("NCNN only supports cpu device")>>

\* f'Failed to extract output : {out}.'
ExtractMsg(name, out) ==
    <<Text("Failed to extract output : "), Repr(out), Text(".")>>

(* ----------------------------- variables ------------------------------- *)

VARIABLES
    extPresent,        \* find_spec('mmdeploy.backend.ncnn.ncnn_ext') is truthy
    netHasOutputNames, \* hasattr(net, 'output_names')
    argNames,          \* the output_names argument of __init__
    netLog,            \* calls made on the network object by __init__
    output_names,      \* self._output_names
    pc,                \* position of the program
    inputs,            \* the inputs argument of the current forward call
    batch_size,        \* forward: batch_size
    batch_id,          \* forward: batch_id
    nCreated,          \* extractors created by the current forward call
    ex,                \* forward: ex, the current extractor
    k,                 \* forward: position in inputs.items()
    j,                 \* __ncnn_execute: position in output_names
    result,            \* __ncnn_execute: result
    outputs,           \* forward: outputs
    trace,             \* calls made on the engine by the current forward call
    stackStarted,      \* the stacking loop of forward has been entered
    returned,          \* the value forward returned
    err                \* the exception that left __init__ or forward

vars == <<extPresent, netHasOutputNames, argNames, netLog, output_names, pc,
          inputs, batch_size, batch_id, nCreated, ex, k, j, result, outputs,
          trace, stackStarted, returned, err>>

ctorVars == <<extPresent, netHasOutputNames, argNames>>

NoReturn == [has |-> FALSE, map |-> <<>>]
Return(map) == [has |-> TRUE, map |-> map]

Event(op, e, name, mat, ret) ==
    [op |-> op, ex |-> e, name |-> name, mat |-> mat, ret |-> ret]

(* ---------------------------- construction ----------------------------- *)

\* a buggy variant: the custom layers are registered after load_param
LoadSequenceLate(ext) ==
    IF ext THEN <<"load_param", "register_mmdeploy_custom_layers", "load_model">>
    ELSE <<"load_param", "load_model">>

\* the calls __init__ makes on the fresh ncnn.Net(), in order
LoadSequence(ext) ==
    IF ext THEN <<"register_mmdeploy_custom_layers", "load_param", "load_model">>
    ELSE <<"load_param", "load_model">>

\* BaseWrapper.__init__(output_names): keeps the sequence it is given
BaseWrapperInit(names) == names

\* a buggy variant: the network's names are used whatever the caller passed
ResolveOutputNamesDeclared(arg, declared) == declared

\* output_names if given, else net.output_names()
ResolveOutputNames(arg, declared) ==
    IF arg.given THEN arg.names ELSE declared

Init ==
    /\ extPresent \in BOOLEAN
    /\ netHasOutputNames \in BOOLEAN
    /\ argNames \in {None} \cup {Some(s) : s \in SeqsUpTo(OutputUniverse, MaxOutputs)}
    /\ netLog = <<>>
    /\ output_names = <<>>
    /\ pc = "construct"
    /\ inputs = <<>>
    /\ batch_size = 0
    /\ batch_id = 0
    /\ nCreated = 0
    /\ ex = 0
    /\ k = 1
    /\ j = 1
    /\ result = <<>>
    /\ outputs = <<>>
    /\ trace = <<>>
    /\ stackStarted = FALSE
    /\ returned = NoReturn
    /\ err = NoErr

callVars == <<inputs, batch_size, batch_id, nCreated, ex, k, j, result,
              outputs, trace, stackStarted, returned>>

\* one call of __init__ on the network: register, load_param or load_model
LoadStep ==
    /\ pc = "construct"
    /\ Len(netLog) < Len(LoadSequence(extPresent))
    /\ netLog' = Append(netLog, LoadSequence(extPresent)[Len(netLog) + 1])
    /\ UNCHANGED <<ctorVars, output_names, pc, callVars, err>>

\* the rest of __init__: the hasattr assertion and super().__init__
ResolveNames ==
    /\ pc = "construct"
    /\ Len(netLog) = Len(LoadSequence(extPresent))
    /\ IF ~argNames.given /\ ~netHasOutputNames
         THEN /\ pc' = "init_failed"
              /\ err' = Raise("AssertionError", <<>>)
              /\ UNCHANGED output_names
         ELSE /\ pc' = "ready"
              /\ output_names' =
                    BaseWrapperInit(ResolveOutputNames(argNames, DeclaredOutputs))
              /\ UNCHANGED err
    /\ UNCHANGED <<ctorVars, netLog, callVars>>

(* ------------------------------ forward -------------------------------- *)

\* the loop over input_list[1:], from position p on
RECURSIVE ValidateFrom(_, _, _)
ValidateFrom(input_list, p, bs) ==
    IF p > Len(input_list) THEN NoErr
    ELSE IF Size0(input_list[p]) # bs THEN Raise("AssertionError", BatchSizeMsg)
    ELSE IF input_list[p].device # "cpu" THEN Raise("AssertionError", DeviceMsg)
    ELSE ValidateFrom(input_list, p + 1, bs)

\* a buggy variant: the loop starts one tensor too late
ValidateLate(input_list) ==
    IF Len(input_list) = 0 THEN Raise("IndexError", <<>>)
    ELSE ValidateFrom(input_list, 3, Size0(input_list[1]))

\* input_list[0].size(0) and the two assertions on every other tensor
Validate(input_list) ==
    IF Len(input_list) = 0 THEN Raise("IndexError", <<>>)
    ELSE ValidateFrom(input_list, 2, Size0(input_list[1]))

\* dict([name, [None] * batch_size] for name in output_names)
NoneSlot == [device |-> "None", data |-> <<>>]
CreateOutputs(names, bs) == [n \in Range(names) |-> [i \in 1..bs |-> NoneSlot]]

\* forward is called: validation and the empty accumulator
ForwardBegin ==
    /\ pc = "ready"
    /\ \E inp \in InputChoices :
         LET input_list == [p \in DOMAIN inp |-> inp[p].tensor]
             verdict == Validate(input_list)
         IN  /\ inputs' = inp
             /\ err' = verdict
             /\ IF verdict # NoErr
                  THEN /\ pc' = "raised"
                       /\ batch_size' = 0
                       /\ outputs' = <<>>
                  ELSE /\ pc' = "loop"
                       /\ batch_size' = Size0(input_list[1])
                       /\ outputs' = CreateOutputs(output_names, Size0(input_list[1]))
    /\ batch_id' = 0
    /\ nCreated' = 0
    /\ ex' = 0
    /\ k' = 1
    /\ j' = 1
    /\ result' = <<>>
    /\ trace' = <<>>
    /\ stackStarted' = FALSE
    /\ returned' = NoReturn
    /\ UNCHANGED <<ctorVars, netLog, output_names>>

\* ex = self._net.create_extractor()
CreateExtractor ==
    /\ pc = "loop"
    /\ batch_id < batch_size
    /\ nCreated' = nCreated + 1
    /\ ex' = nCreated + 1
    /\ trace' = Append(trace, Event("create_extractor", nCreated + 1, "", NoMat, 0))
    /\ k' = 1
    /\ j' = 1
    /\ result' = <<>>
    /\ pc' = "bind"
    /\ UNCHANGED <<ctorVars, netLog, output_names, inputs, batch_size, batch_id,
                   outputs, stackStarted, returned, err>>

\* a buggy variant: the first entry of the mapping is not bound
InputBindingsTail(inp, bid) ==
    [p \in 1..(Len(inp) - 1) |->
        [name |-> inp[p + 1].name, mat |-> ToMat(Slice(inp[p + 1].tensor, bid))]]

\* for name, input_tensor in inputs.items(): the (name, Mat) pairs to bind
InputBindings(inp, bid) ==
    [p \in DOMAIN inp |->
        [name |-> inp[p].name, mat |-> ToMat(Slice(inp[p].tensor, bid))]]

\* ex.input(name, input_mat)
BindInput ==
    /\ pc = "bind"
    /\ k <= Len(InputBindings(inputs, batch_id))
    /\ LET b == InputBindings(inputs, batch_id)[k]
       IN  trace' = Append(trace, Event("input", ex, b.name, b.mat, 0))
    /\ k' = k + 1
    /\ UNCHANGED <<ctorVars, netLog, output_names, pc, inputs, batch_size,
                   batch_id, nCreated, ex, j, result, outputs, stackStarted,
                   returned, err>>

\* all inputs are bound: __ncnn_execute is entered
EnterExecute ==
    /\ pc = "bind"
    /\ k > Len(InputBindings(inputs, batch_id))
    /\ pc' = "extract"
    /\ j' = 1
    /\ result' = <<>>
    /\ UNCHANGED <<ctorVars, netLog, output_names, inputs, batch_size, batch_id,
                   nCreated, ex, k, outputs, trace, stackStarted, returned, err>>

\* a buggy variant: the status of extract is ignored
ExtractFailsNever(out_ret) == FALSE

\* assert out_ret == 0
ExtractFails(out_ret) == out_ret # 0

\* result[name] = out
DictSet(d, key, val) ==
    [n \in DOMAIN d \cup {key} |-> IF n = key THEN val ELSE d[n]]

\* out_ret, out = extractor.extract(name), the assertion and result[name] = out
Extract ==
    /\ pc = "extract"
    /\ j <= Len(output_names)
    /\ \E out_ret \in EngineStatus, out \in EngineMats :
         LET name == output_names[j]
         IN  /\ trace' = Append(trace, Event("extract", ex, name, out, out_ret))
             /\ IF ExtractFails(out_ret)
                  THEN /\ pc' = "raised"
                       /\ err' = Raise("AssertionError", ExtractMsg(name, out))
                       /\ UNCHANGED <<j, result>>
                  ELSE /\ result' = DictSet(result, name, out)
                       /\ j' = j + 1
                       /\ UNCHANGED <<pc, err>>
    /\ UNCHANGED <<ctorVars, netLog, output_names, inputs, batch_size, batch_id,
                   nCreated, ex, k, outputs, stackStarted, returned>>

\* a buggy variant: the samples are stored back to front
StoreResultsReversed(outs, res, names, bid, bs) ==
    [n \in DOMAIN outs |->
        IF n \in Range(names)
          THEN [outs[n] EXCEPT ![bs - bid] = FromMat(res[n])]
          ELSE outs[n]]

\* for name in output_names: outputs[name][batch_id] = torch.from_numpy(...)
StoreResults(outs, res, names, bid, bs) ==
    [n \in DOMAIN outs |->
        IF n \in Range(names)
          THEN [outs[n] EXCEPT ![bid + 1] = FromMat(res[n])]
          ELSE outs[n]]

\* __ncnn_execute returns and the results of the sample are stored
StoreSample ==
    /\ pc = "extract"
    /\ j > Len(output_names)
    /\ outputs' = StoreResults(outputs, result, output_names, batch_id, batch_size)
    /\ batch_id' = batch_id + 1
    /\ pc' = "loop"
    /\ UNCHANGED <<ctorVars, netLog, output_names, inputs, batch_size, nCreated,
                   ex, k, j, result, trace, stackStarted, returned, err>>

StackOk(t) == [ok |-> TRUE, value |-> t, err |-> NoErr]
StackErr(e) == [ok |-> FALSE, value |-> NoneSlot, err |-> e]

\* a buggy variant: the first sample is returned instead of the stack
TorchStackFirst(list) ==
    IF Len(list) = 0
      THEN StackErr(Raise("RuntimeError", <<Text("stack expects a non-empty TensorList")>>))
    ELSE StackOk(list[1])

\* torch.stack(list): needs a non-empty list of tensors of one shape
TorchStack(list) ==
    IF Len(list) = 0
      THEN StackErr(Raise("RuntimeError", <<Text("stack expects a non-empty TensorList")>>))
    ELSE IF \E i \in DOMAIN list : list[i].device = "None"
      THEN StackErr(Raise("TypeError", <<Text("expected Tensor as element")>>))
    ELSE IF \E i \in DOMAIN list : Len(list[i].data) # Len(list[1].data)
      THEN StackErr(Raise("RuntimeError", <<Text("stack expects each tensor to be equal size")>>))
    ELSE StackOk(Tensor("cpu", [i \in DOMAIN list |-> list[i].data]))

\* for name, input_tensor in outputs.items(): outputs[name] = torch.stack(...)
\* and return outputs
StackAndReturn ==
    /\ pc = "loop"
    /\ batch_id >= batch_size
    /\ stackStarted' = TRUE
    /\ LET stacked == [n \in DOMAIN outputs |-> TorchStack(outputs[n])]
           failing == {n \in DOMAIN outputs : ~stacked[n].ok}
       IN  IF failing # {}
             THEN /\ pc' = "raised"
                  /\ err' = stacked[CHOOSE n \in failing : TRUE].err
                  /\ UNCHANGED returned
             ELSE /\ pc' = "returned"
                  /\ returned' = Return([n \in DOMAIN outputs |-> stacked[n].value])
                  /\ UNCHANGED err
    /\ UNCHANGED <<ctorVars, netLog, output_names, inputs, batch_size, batch_id,
                   nCreated, ex, k, j, result, outputs, trace>>

\* forward has returned or raised: its frame is dropped and the wrapper, whose
\* only state is the network and self._output_names, can be called again
ForwardEnd ==
    /\ pc \in {"returned", "raised"}
    /\ pc' = "ready"
    /\ inputs' = <<>>
    /\ batch_size' = 0
    /\ batch_id' = 0
    /\ nCreated' = 0
    /\ ex' = 0
    /\ k' = 1
    /\ j' = 1
    /\ result' = <<>>
    /\ outputs' = <<>>
    /\ trace' = <<>>
    /\ stackStarted' = FALSE
    /\ returned' = NoReturn
    /\ err' = NoErr
    /\ UNCHANGED <<ctorVars, netLog, output_names>>

Next ==
    \/ LoadStep
    \/ ResolveNames
    \/ ForwardBegin
    \/ CreateExtractor
    \/ BindInput
    \/ EnterExecute
    \/ Extract
    \/ StoreSample
    \/ StackAndReturn
    \/ ForwardEnd

Spec == Init /\ [][Next]_vars

(* ---------------------------- properties ------------------------------- *)

\* forward has been entered (and may have finished)
CallBegun == pc \in {"loop", "bind", "extract", "returned", "raised"}

\* forward has finished
CallEnded == pc \in {"returned", "raised"}

Positions(op) == {p \in DOMAIN trace : trace[p].op = op}

\* the AssertionError of one of the two input assertions of forward
IsContractViolation ==
    /\ err.kind = "AssertionError"
    /\ err.msg \in {BatchSizeMsg, DeviceMsg}

\* the AssertionError of __ncnn_execute
IsExtractionFailure ==
    /\ err.kind = "AssertionError"
    /\ Len(err.msg) = 3
    /\ err.msg[1] = Text("Failed to extract output : ")

FailedExtracts == {p \in Positions("extract") : trace[p].ret # 0}

SomeNonCpu == \E p \in DOMAIN inputs : inputs[p].tensor.device # "cpu"

MixedBatch ==
    /\ Len(inputs) >= 2
    /\ \E p \in DOMAIN inputs : Size0(inputs[p].tensor) # Size0(inputs[1].tensor)

ValidBatch ==
    /\ Len(inputs) >= 1
    /\ \A p \in DOMAIN inputs :
         /\ Size0(inputs[p].tensor) = Size0(inputs[1].tensor)
         /\ inputs[p].tensor.device = "cpu"

\* C1: whenever some tensor of the input mapping is not on the CPU, forward
\* has failed with a contract violation and no extractor has been created.
C1_NonCpuRejected ==
    (CallBegun /\ SomeNonCpu) =>
        /\ pc = "raised"
        /\ IsContractViolation
        /\ Positions("create_extractor") = {}

\* C2: whenever an extract call returned a non-zero status, forward has
\* raised, has returned no mapping, and the error report contains the name of
\* the output whose extraction failed.
C2_FailureNamesOutput ==
    \A p \in FailedExtracts :
        /\ pc = "raised"
        /\ ~returned.has
        /\ \E q \in DOMAIN err.msg :
             /\ err.msg[q].kind = "text"
             /\ err.msg[q].val = trace[p].name

\* C3: whenever two or more tensors are passed and one differs from the first
\* in its leading dimension, forward has failed with a contract violation and
\* no call at all has been made on the engine.
C3_MixedBatchRejected ==
    (CallBegun /\ MixedBatch) =>
        /\ pc = "raised"
        /\ IsContractViolation
        /\ trace = <<>>

C3_Witness ==
    /\ pc = "raised"
    /\ MixedBatch
    /\ IsContractViolation

\* C4: a forward call on a valid batch in which no extraction failed ends by
\* returning a mapping whose keys are exactly the resolved output names.
C4_ValidBatchReturnsAllNames ==
    (CallEnded /\ ValidBatch /\ FailedExtracts = {}) =>
        /\ pc = "returned"
        /\ returned.has
        /\ DOMAIN returned.map = Range(output_names)

\* C5: every tensor of a returned mapping has the leading dimension of the
\* first input tensor.
C5_LeadingDimIsBatchSize ==
    pc = "returned" =>
        \A n \in DOMAIN returned.map :
            Size0(returned.map[n]) = Size0(inputs[1].tensor)

C5_Witness ==
    /\ pc = "returned"
    /\ Size0(inputs[1].tensor) >= 2
    /\ DOMAIN returned.map # {}

\* C6: once the wrapper is constructed, and after any number of forward
\* calls, the resolved names are the caller's sequence if one was given and
\* the network's declared outputs otherwise.
C6_ResolvedNames ==
    pc \notin {"construct", "init_failed"} =>
        /\ argNames.given => output_names = argNames.names
        /\ ~argNames.given => output_names = DeclaredOutputs

C6_Witness ==
    /\ CallEnded
    /\ argNames.given
    /\ argNames.names # DeclaredOutputs
    /\ Len(argNames.names) >= 1
    /\ output_names = argNames.names

\* C7: registration, when it happens, precedes load_param, load_param
\* precedes load_model, registration happens exactly when the extension is
\* present, and a constructed wrapper has loaded both files.
C7_LoadOrder ==
    /\ \A p, q \in DOMAIN netLog :
         /\ (netLog[p] = "register_mmdeploy_custom_layers" /\ netLog[q] = "load_param")
              => p < q
         /\ (netLog[p] = "load_param" /\ netLog[q] = "load_model") => p < q
    /\ ~extPresent => "register_mmdeploy_custom_layers" \notin Range(netLog)
    /\ "load_model" \in Range(netLog) => "load_param" \in Range(netLog)
    /\ (extPresent /\ "load_param" \in Range(netLog))
         => "register_mmdeploy_custom_layers" \in Range(netLog)
    /\ pc # "construct" =>
         /\ {"load_param", "load_model"} \subseteq Range(netLog)
         /\ \A p, q \in DOMAIN netLog : netLog[p] = netLog[q] => p = q

C7_Witness ==
    /\ pc = "ready"
    /\ extPresent
    /\ netLog = <<"register_mmdeploy_custom_layers", "load_param", "load_model">>

\* the extractors on which slice i of every input was bound
ExtractorsOfSample(i) ==
    {e \in 1..nCreated :
        \A p \in DOMAIN inputs :
            \E q \in Positions("input") :
                /\ trace[q].ex = e
                /\ trace[q].name = inputs[p].name
                /\ trace[q].mat = ToMat(Slice(inputs[p].tensor, i))}

\* the Mat the last extract of name n on extractor e handed back
LastExtracted(e, n) ==
    LET ps == {p \in Positions("extract") : trace[p].ex = e /\ trace[p].name = n}
        last == CHOOSE p \in ps : \A q \in ps : q <= p
    IN  trace[last].mat

\* C8: in a returned mapping, element i of the tensor of name n is the value
\* extracted for n from the extractor on which slice i of every input was
\* bound.
C8_OrderPreserved ==
    pc = "returned" =>
        \A n \in DOMAIN returned.map :
            \A i \in 0..(batch_size - 1) :
                /\ ExtractorsOfSample(i) # {}
                /\ \A e \in ExtractorsOfSample(i) :
                     returned.map[n].data[i + 1] = FromMat(LastExtracted(e, n)).data

C8_Witness ==
    /\ pc = "returned"
    /\ batch_size >= 2
    /\ \E n \in DOMAIN returned.map :
         returned.map[n].data[1] # returned.map[n].data[2]

\* the number of engine calls forward makes for one sample
BlockLen == 1 + Len(inputs) + Len(output_names)

\* C9: the engine calls of one forward call come in blocks, one per sample in
\* increasing order: create_extractor giving a new extractor, then one input
\* call per entry of the input mapping under its name with the sample's
\* slice, then one extract call per resolved output name in the resolved
\* order; a call that returns has made exactly batch_size blocks.
C9_ExtractorProtocol ==
    /\ \A p \in DOMAIN trace :
         LET sample == (p - 1) \div BlockLen
             off == (p - 1) % BlockLen
         IN  /\ trace[p].ex = sample + 1
             /\ sample < batch_size
             /\ off = 0 => trace[p].op = "create_extractor"
             /\ (off >= 1 /\ off <= Len(inputs)) =>
                  /\ trace[p].op = "input"
                  /\ trace[p].name = inputs[off].name
                  /\ trace[p].mat = ToMat(Slice(inputs[off].tensor, sample))
             /\ off > Len(inputs) =>
                  /\ trace[p].op = "extract"
                  /\ trace[p].name = output_names[off - Len(inputs)]
    /\ pc = "returned" =>
         /\ Len(trace) = batch_size * BlockLen
         /\ Cardinality(Positions("create_extractor")) = batch_size
         /\ batch_size = Size0(inputs[1].tensor)

C9_Witness ==
    /\ pc = "returned"
    /\ batch_size >= 2
    /\ Len(inputs) >= 2
    /\ Len(output_names) >= 2

\* C10: a failed extract is the last engine call of its forward call: the
\* call has raised the extraction failure, nothing was returned, the stacking
\* loop was not entered and the sample's accumulator slots were not filled.
C10_FailureUnwinds ==
    \A p \in FailedExtracts :
        /\ p = Len(trace)
        /\ pc = "raised"
        /\ IsExtractionFailure
        /\ ~returned.has
        /\ ~stackStarted
        /\ \A n \in DOMAIN outputs : outputs[n][trace[p].ex] = NoneSlot

C10_Witness ==
    /\ pc = "raised"
    /\ FailedExtracts # {}
    /\ batch_size >= 2
    /\ Len(output_names) >= 2
    /\ \E p \in FailedExtracts : trace[p].ex = 1 /\ trace[p].name = output_names[1]

====
